---- MODULE Spec2Model ----
(***************************************************************************)
(* com::vectormap<key_, value_, delta_> (include/vectormap.hpp): a vector   *)
(* of (key, value) pairs kept in one manually managed buffer.               *)
(*                                                                         *)
(* The model keeps the allocator's heap (a buffer per id), and for every   *)
(* container object its size_, capacity_ and data_ members.  A method is   *)
(* an operator from a "world" (the four of them plus the method's result)  *)
(* to a world; an action applies one public method to the variables.       *)
(***************************************************************************)
EXTENDS Integers, Sequences, FiniteSets, TLC

\* ------------------------------------------------------------------ bounds
\* delta_, the growth chunk (template parameter, 100 by default)
Delta == 2
\* largest capacity a container is let to allocate
MaxCap == 4
\* largest size a call may leave a container with
MaxSize == 3
\* number of buffers the allocator can hand out at the same time
MaxBufs == 3
\* number of slots the allocator can hand out at the same time
MaxHeap == 6
\* longest initializer list passed to a constructor or to insert
MaxIL == 2
\* longest literal sequence a container is constructed from when the
\* constructor is studied alone: two chunks
MaxLiteral == 2 * Delta
\* largest ordinal / number passed to get(key, ordinal, number)
MaxOrd == 3

\* ------------------------------------------------------------- program data
npos == -1
NULL == 0

Keys == {"a", "b"}
Vals == {1, 2}
\* the pairs the callers insert: a key held twice, with values that tell the
\* two apart, and another key
Entry == {e \in [first : Keys, second : Vals] : e.first = "a" \/ e.second = 1}
\* a value read from storage that holds no object the program wrote
Indet == [first |-> "?", second |-> 0]
\* mapped_type(): a default-constructed value
DefaultValue == 0
\* key_type(): a default-constructed key (a key is of a class type: Keyable
\* excludes the integral types)
DefaultKey == ""
\* a member "mapped_type void_mapped_type_;" that no constructor initialises:
\* default-initialised, which leaves a value of a scalar type indeterminate
\* until it is assigned (set)
DefaultInit == [set |-> FALSE, v |-> DefaultValue]
\* void_key_type_: default-initialised, and const to every caller
void_key_type_ == DefaultKey
Cont == {1, 2}
BufId == 1..MaxBufs

\* A slot of a buffer.
\*   live : a constructed pair, e its content
\*   dead : a destroyed pair inside the live range; e is what its storage
\*          still reads as (any pair: chosen when the slot is left behind)
\*   raw  : storage without an object (content not tracked)
\*   junk : an object constructed from indeterminate storage, or an object
\*          at or after size_ (content not tracked: nothing reads it back
\*          into the live range)
LiveSlot(e) == [st |-> "live", e |-> e]
DeadSlot(e) == [st |-> "dead", e |-> e]
Raw == [st |-> "raw", e |-> Indet]
Junk == [st |-> "junk", e |-> Indet]
Constructed(s) == s.st \in {"live", "junk"}

NoBuf == [alloc |-> FALSE, mem |-> [i \in {} |-> Raw]]

\* exists, size_, capacity_, data_: the container objects; heap: the
\* allocator's buffers; last: the call that has just returned (or faulted),
\* when it is one of the calls in track (the calls a specification observes;
\* never changed; with "call" in track, every other call is recorded as a
\* "call" of its container; with "past" in track, a call is recorded with
\* whether it went past the end of its buffer), until the caller goes on
\* void_mapped_type_: each container's stand-in value for positions out of
\* range
VARIABLES exists, size_, capacity_, data_, heap, void_mapped_type_, last, track
vars == <<exists, size_, capacity_, data_, heap, void_mapped_type_, last, track>>

\* ------------------------------------------------------------------ worlds
\* ok: a bool result; it: an iterator result, as an offset from data_ (end() is
\* data_ + size_); ptr: a pointer result; out: a vector result (positions);
\* bound: the call left the model's bounds; fault: the call wrote through a
\* null data_ (the process dies there); past: the call constructed or
\* destroyed a slot past the end of its buffer
World == [size |-> size_, capacity |-> capacity_, data |-> data_, heap |-> heap,
          ok |-> TRUE, it |-> 0, ptr |-> NULL, out |-> <<>>,
          bound |-> FALSE, fault |-> FALSE, past |-> FALSE]

Mem(w, c) == w.heap[w.data[c]].mem

\* data_[i] read as a value
ReadSlot(w, c, i) ==
    IF w.data[c] = NULL \/ i \notin DOMAIN Mem(w, c) THEN Indet
    ELSE IF Mem(w, c)[i].st \in {"live", "dead"} THEN Mem(w, c)[i].e ELSE Indet

\* the object constructed from the value e
Object(e) == IF e = Indet THEN Junk ELSE LiveSlot(e)

\* allocator_traits::construct(allocator_, data_ + i, e)
construct(w, c, i, e) ==
    IF w.data[c] = NULL THEN [w EXCEPT !.fault = TRUE]
    ELSE IF i \notin DOMAIN Mem(w, c) THEN [w EXCEPT !.past = TRUE]
    ELSE [w EXCEPT !.heap[w.data[c]].mem[i] = Object(e)]

\* allocator_traits::destroy(allocator_, data_ + i)
destroy(w, c, i) ==
    IF w.data[c] = NULL THEN w
    ELSE IF i \notin DOMAIN Mem(w, c) THEN [w EXCEPT !.past = TRUE]
    ELSE [w EXCEPT !.heap[w.data[c]].mem[i] = Raw]

FreeIds(h) == {b \in BufId : ~h[b].alloc}
FirstFree(h) == CHOOSE b \in FreeIds(h) : \A b2 \in FreeIds(h) : b <= b2

\* the slots of the buffers 1..b
RECURSIVE Allocated(_, _)
Allocated(h, b) ==
    IF b = 0 THEN 0
    ELSE Allocated(h, b - 1) + (IF h[b].alloc THEN Cardinality(DOMAIN h[b].mem) ELSE 0)

\* the largest capacity and size of a run: with "literal" in track one
\* container may take the whole heap, so that the longest literal fits
CapLimit == IF "literal" \in track THEN MaxHeap ELSE MaxCap
SizeLimit == IF "literal" \in track THEN MaxLiteral ELSE MaxSize

\* allocator_traits::allocate(allocator_, n): the new buffer's id in w.ptr
allocate(w, n) ==
    IF n > CapLimit \/ FreeIds(w.heap) = {} \/ Allocated(w.heap, MaxBufs) + n > MaxHeap
    THEN [w EXCEPT !.bound = TRUE]
    ELSE [w EXCEPT !.heap[FirstFree(w.heap)] =
                       [alloc |-> TRUE, mem |-> [i \in 0..(n - 1) |-> Raw]],
                   !.ptr = FirstFree(w.heap)]

\* allocator_traits::deallocate(allocator_, p, n)
deallocate(w, p) ==
    IF p = NULL THEN w ELSE [w EXCEPT !.heap[p] = NoBuf]

\* ------------------------------------------------------------------ resize
\* A method is written as a chain of operators, one for each stretch of its
\* body; the world each stretch starts from is the operator's first argument.
RECURSIVE resizeLoop(_, _, _, _)
resizeLoop(w, c, new_data, i) ==
    IF i < w.size[c]
    THEN resizeLoop(destroy([w EXCEPT !.heap[new_data].mem[i] = Object(ReadSlot(w, c, i))],
                            c, i),
                    c, new_data, i + 1)
    ELSE w

\* resize, after the entries are moved
resize_moved(w, c, new_data, new_capacity) ==
    [(IF w.size[c] # 0 THEN deallocate(w, w.data[c]) ELSE w)
        EXCEPT !.data[c] = new_data, !.capacity[c] = new_capacity, !.ok = TRUE]

\* resize, after the allocation
\* a resize that leaves the entries behind
resize_allocated_bare(w, c, new_capacity) ==
    IF w.bound THEN w ELSE resize_moved(w, c, w.ptr, new_capacity)

resize_allocated(w, c, new_capacity) ==
    IF w.bound THEN w
    ELSE resize_moved(resizeLoop(w, c, w.ptr, 0), c, w.ptr, new_capacity)

\* resize without its test new_capacity < size_
resize_unchecked(w, c, new_capacity) ==
    resize_allocated(allocate(w, new_capacity), c, new_capacity)

resize(w, c, new_capacity) ==
    IF new_capacity < w.size[c] THEN [w EXCEPT !.ok = FALSE]
    ELSE resize_allocated(allocate(w, new_capacity), c, new_capacity)

\* a reserve that asks for exactly min_capacity
reserve_exact(w, c, min_capacity) ==
    IF min_capacity < w.size[c] THEN [w EXCEPT !.ok = FALSE]
    ELSE resize(w, c, min_capacity)

reserve(w, c, min_capacity) ==
    IF min_capacity < w.size[c] THEN [w EXCEPT !.ok = FALSE]
    ELSE resize(w, c, ((min_capacity \div Delta) + 1) * Delta)

\* -------------------------------------------------------------------- gap_
RECURSIVE gapLoop(_, _, _, _, _)
gapLoop(w, c, i, from, length) ==
    IF (i > from) /\ ((i - length) # npos)
    THEN gapLoop(destroy(construct(w, c, i, ReadSlot(w, c, i - length)), c, i - length),
                 c, i - 1, from, length)
    ELSE w

\* gap_, after size_ += length; w.ok is success
gap_sized(w, c, from, length) ==
    IF w.size[c] <= length THEN [w EXCEPT !.ok = TRUE]
    ELSE IF w.ok
         THEN IF from >= w.size[c] THEN [w EXCEPT !.ok = TRUE]
              ELSE [gapLoop(w, c, w.size[c] - 1, from, length) EXCEPT !.ok = TRUE]
         ELSE [w EXCEPT !.ok = FALSE]

\* gap_, after the reserve
gap_reserved(w, c, from, length) ==
    IF w.bound THEN w
    ELSE gap_sized([w EXCEPT !.size[c] = @ + length], c, from, length)

gap_(w, c, from, length) ==
    gap_reserved(IF (w.size[c] + length) > w.capacity[c]
                 THEN reserve(w, c, w.size[c] + length)
                 ELSE [w EXCEPT !.ok = TRUE],
                 c, from, length)

\* ------------------------------------------------------------------ insert
\* end(): iterator(data_ + size_)
end(w, c) == w.size[c]

\* insert(val, pos), after gap_
insert_gapped(w, c, val, pos) ==
    IF w.bound THEN w
    ELSE IF w.ok THEN [construct(w, c, pos, val) EXCEPT !.it = pos]
    ELSE [w EXCEPT !.it = end(w, c)]

\* an insert that puts every entry at the front
insert_front(w, c, val, pos) ==
    IF pos > w.size[c] THEN [w EXCEPT !.it = end(w, c)]
    ELSE insert_gapped(gap_(w, c, 0, 1), c, val, 0)

insert(w, c, val, pos) ==
    IF pos > w.size[c] THEN [w EXCEPT !.it = end(w, c)]
    ELSE insert_gapped(gap_(w, c, pos, 1), c, val, pos)

RECURSIVE insertLoop(_, _, _, _, _)
insertLoop(w, c, il, pos, i) ==
    IF i < Len(il)
    THEN insertLoop(construct(w, c, pos + i, il[i + 1]), c, il, pos, i + 1)
    ELSE w

\* insert(il, pos), after gap_
insert_il_gapped(w, c, il, pos) ==
    IF w.bound THEN w
    ELSE IF w.ok THEN [insertLoop(w, c, il, pos, 0) EXCEPT !.it = pos]
    ELSE [w EXCEPT !.it = end(w, c)]

\* an insert that takes a pos beyond the end as the end
insert_il_clamped(w, c, il, pos) ==
    insert_il_gapped(gap_(w, c, IF pos > w.size[c] THEN w.size[c] ELSE pos, Len(il)),
                     c, il, IF pos > w.size[c] THEN w.size[c] ELSE pos)

insert_il(w, c, il, pos) ==
    IF pos > w.size[c] THEN [w EXCEPT !.it = end(w, c)]
    ELSE insert_il_gapped(gap_(w, c, pos, Len(il)), c, il, pos)

\* ------------------------------------------------------------------- erase
RECURSIVE eraseLoop(_, _, _)
eraseLoop(w, c, i) ==
    IF i < w.size[c]
    THEN eraseLoop(construct(destroy(w, c, i), c, i, ReadSlot(w, c, i + 1)), c, i + 1)
    ELSE w

\* an erase that closes the gap one position too far up
erase_next(w, c, pos) ==
    IF (w.size[c] > 0) /\ (pos < w.size[c])
    THEN eraseLoop([w EXCEPT !.size[c] = @ - 1], c, pos + 1)
    ELSE w

erase(w, c, pos) ==
    IF (w.size[c] > 0) /\ (pos < w.size[c])
    THEN eraseLoop([w EXCEPT !.size[c] = @ - 1], c, pos)
    ELSE w

RECURSIVE clearLoop(_, _, _)
clearLoop(w, c, i) ==
    IF i < w.size[c] THEN clearLoop(destroy(w, c, i), c, i + 1) ELSE w

clear(w, c) == [clearLoop(w, c, 0) EXCEPT !.size[c] = 0]

\* insert(const vectormap& map, pos), map another object than *this
RECURSIVE insertMapLoop(_, _, _, _, _)
insertMapLoop(w, c, map, pos, i) ==
    IF i < w.size[map]
    THEN insertMapLoop(construct(w, c, pos + i, ReadSlot(w, map, i)), c, map, pos, i + 1)
    ELSE w

\* insert(map, pos), after gap_
insert_map_gapped(w, c, map, pos) ==
    IF w.bound THEN w
    ELSE IF w.ok THEN [insertMapLoop(w, c, map, pos, 0) EXCEPT !.it = pos]
    ELSE [w EXCEPT !.it = end(w, c)]

insert_map(w, c, map, pos) ==
    IF pos > w.size[c] THEN [w EXCEPT !.it = end(w, c)]
    ELSE insert_map_gapped(gap_(w, c, pos, w.size[map]), c, map, pos)

\* --------------------------------------------------------------------- get
\* get(pos): the iterator, as a position
get_pos(w, c, pos) == IF pos < w.size[c] THEN pos ELSE end(w, c)

\* number - 1 is computed in size_type: 0 - 1 is npos
RECURSIVE getLoop(_, _, _, _, _, _, _, _)
getLoop(w, c, key, ordinal, number, i, order, out) ==
    IF i < w.size[c]
    THEN IF ReadSlot(w, c, i).first = key
         THEN IF (order >= ordinal) /\ (Len(out) = (IF number = 0 THEN npos ELSE number - 1))
              THEN Append(out, i)
              ELSE IF order >= ordinal
                   THEN getLoop(w, c, key, ordinal, number, i + 1, order + 1, Append(out, i))
                   ELSE getLoop(w, c, key, ordinal, number, i + 1, order + 1, out)
         ELSE getLoop(w, c, key, ordinal, number, i + 1, order, out)
    ELSE out

get(w, c, key, ordinal, number) == getLoop(w, c, key, ordinal, number, 0, 1, <<>>)

RECURSIVE getAllLoop(_, _, _, _, _)
getAllLoop(w, c, key, i, out) ==
    IF i < w.size[c]
    THEN getAllLoop(w, c, key, i + 1,
                    IF ReadSlot(w, c, i).first = key THEN Append(out, i) ELSE out)
    ELSE out

\* a get_all that starts its scan at the second position
get_all_late(w, c, key) == getAllLoop(w, c, key, 1, <<>>)

get_all(w, c, key) == getAllLoop(w, c, key, 0, <<>>)

\* --------------------------------------------------------------- erase_all
\* the loop over v, from v.size() down to 1
RECURSIVE eraseAllLoop(_, _, _, _)
eraseAllLoop(w, c, v, k) ==
    IF k >= 1 THEN eraseAllLoop(erase(w, c, v[k]), c, v, k - 1) ELSE w

\* an erase_all that stops after the first occurrence
erase_all_first(w, c, key) ==
    eraseAllLoop(w, c, get_all(w, c, key), IF Len(get_all(w, c, key)) > 0 THEN 1 ELSE 0)

erase_all(w, c, key) ==
    eraseAllLoop(w, c, get_all(w, c, key), Len(get_all(w, c, key)))

\* erase(key): erase(get(key).second); .second of a vector is not a position:
\* the call does not compile, and is not modelled

\* -------------------------------------------------------------------- move
RECURSIVE moveLoop(_, _, _)
moveLoop(w, c, i) ==
    IF i < w.size[c]
    THEN moveLoop(destroy(construct(w, c, i, ReadSlot(w, c, i + 1)), c, i + 1), c, i + 1)
    ELSE w

\* move, after gap_
move_gapped(w, c, from, to) ==
    IF w.bound THEN w
    ELSE [moveLoop(destroy(construct(w, c, to, ReadSlot(w, c, from + 1)), c, from + 1),
                   c, from + 1)
             EXCEPT !.size[c] = @ - 1]

move(w, c, from, to) ==
    IF (from < w.size[c]) /\ (to < w.size[c])
    THEN move_gapped(gap_(w, c, to, 1), c, from, to)
    ELSE w

\* -------------------------------------------------------------------- swap
\* swap, after data_[to] is moved to temp_ and destroyed
swap_taken(w, c, from, to, temp_) ==
    construct(destroy(construct(w, c, to, ReadSlot(w, c, from)), c, from), c, from, temp_)

swap(w, c, from, to) ==
    IF (from < w.size[c]) /\ (to < w.size[c])
    THEN swap_taken(destroy(w, c, to), c, from, to, ReadSlot(w, c, to))
    ELSE w

\* swap(vectormap& a, vectormap& b)
swap_maps(w, a, b) ==
    [w EXCEPT !.data[a] = w.data[b], !.data[b] = w.data[a],
              !.size[a] = w.size[b], !.size[b] = w.size[a],
              !.capacity[a] = w.capacity[b], !.capacity[b] = w.capacity[a]]

\* -------------------------------------------------------------- assignment
RECURSIVE copyLoop(_, _, _, _)
copyLoop(w, c, other, i) ==
    IF i < w.size[other]
    THEN copyLoop(construct(w, c, i, ReadSlot(w, other, i)), c, other, i + 1)
    ELSE w

\* operator=(const vectormap&), after the reserve
copy_assign_reserved(w, c, other) ==
    IF w.bound THEN w ELSE copyLoop(w, c, other, 0)

\* operator=(const vectormap&), after clear()
copy_assign_cleared(w, c, other) ==
    copy_assign_reserved(IF w.size[other] > w.capacity[c]
                         THEN reserve(w, c, w.size[other])
                         ELSE w,
                         c, other)

\* operator=(const vectormap& other), this != &other
copy_assign(w, c, other) == copy_assign_cleared(clear(w, c), c, other)

\* operator=(vectormap&& other), this != &other
move_assign(w, c, other) ==
    [w EXCEPT !.data[c] = w.data[other], !.data[other] = NULL,
              !.size[c] = w.size[other], !.size[other] = 0,
              !.capacity[c] = w.capacity[other], !.capacity[other] = w.capacity[c]]

\* ------------------------------------------------------------ constructors
\* vectormap()
ctor(w, c) == [w EXCEPT !.capacity[c] = 0, !.size[c] = 0, !.data[c] = NULL]

RECURSIVE ctorIlLoop(_, _, _, _)
ctorIlLoop(w, c, il, counter) ==
    IF counter < Len(il)
    THEN ctorIlLoop([construct(w, c, counter, il[counter + 1]) EXCEPT !.size[c] = @ + 1],
                    c, il, counter + 1)
    ELSE w

\* the capacity_ the initializer-list constructor chooses for n entries
il_capacity(n) == IF Delta < n THEN ((n \div Delta) + 1) * Delta ELSE Delta

\* vectormap(il), after the allocation
ctor_il_allocated(w, c, il) ==
    IF w.bound THEN w
    ELSE ctorIlLoop([w EXCEPT !.capacity[c] = il_capacity(Len(il)), !.size[c] = 0,
                              !.data[c] = w.ptr],
                    c, il, 0)

\* vectormap(const std::initializer_list<value_type>& il)
ctor_il(w, c, il) == ctor_il_allocated(allocate(w, il_capacity(Len(il))), c, il)

\* vectormap(other), after the allocation
ctor_copy_allocated(w, c, other) ==
    IF w.bound THEN w
    ELSE [copyLoop([w EXCEPT !.capacity[c] = w.capacity[other], !.size[c] = 0,
                             !.data[c] = w.ptr],
                   c, other, 0)
             EXCEPT !.size[c] = w.size[other]]

\* a copy constructor that takes the buffer of other away
ctor_copy_taking(w, c, other) ==
    [w EXCEPT !.data[c] = w.data[other], !.data[other] = NULL,
              !.size[c] = w.size[other], !.size[other] = 0,
              !.capacity[c] = w.capacity[other], !.capacity[other] = 0]

\* vectormap(const vectormap& other)
ctor_copy(w, c, other) == ctor_copy_allocated(allocate(w, w.capacity[other]), c, other)

\* a move constructor that leaves other its capacity
ctor_move_keeping(w, c, other) ==
    [w EXCEPT !.data[c] = w.data[other], !.data[other] = NULL,
              !.size[c] = w.size[other], !.size[other] = 0,
              !.capacity[c] = w.capacity[other]]

\* vectormap(vectormap&& other)
ctor_move(w, c, other) ==
    [w EXCEPT !.data[c] = w.data[other], !.data[other] = NULL,
              !.size[c] = w.size[other], !.size[other] = 0,
              !.capacity[c] = w.capacity[other], !.capacity[other] = 0]

\* ~vectormap(), after the entries are destroyed
dtor_destroyed(w, c) ==
    [deallocate(w, w.data[c]) EXCEPT !.capacity[c] = 0, !.size[c] = 0, !.data[c] = NULL]

\* ~vectormap()
dtor(w, c) == dtor_destroyed(clearLoop(w, c, 0), c)

\* ------------------------------------------------------------ after a call
\* What a call leaves behind, as the next call can see it.
\*  - A buffer id is an address: it has no meaning but its identity, and the
\*    allocator may hand out any free one.  States are kept up to a renaming
\*    of the buffers: the containers' buffers first, in the order of the
\*    containers, then the buffers no container points to.
\*  - The slots at or after size_ keep only whether any of them holds an
\*    object (recorded in the first of them): no call reads them back into
\*    the live range.  A buffer no container points to keeps only that it
\*    is allocated.
\*  - A slot inside the live range that holds no object the program wrote
\*    reads as some pair, not defined by the program: every pair is a
\*    possible outcome.
Owners(w, b) == {c \in Cont : w.data[c] = b}
Owned(w) == {w.data[c] : c \in Cont} \ {NULL}
Orphans(w) == {b \in BufId : w.heap[b].alloc /\ Owners(w, b) = {}}
First(w, b) == CHOOSE c \in Owners(w, b) : \A c2 \in Owners(w, b) : c <= c2
Rank(w, b) == Cardinality({b2 \in Owned(w) : First(w, b2) <= First(w, b)})
Renamed(w) ==
    LET no == Cardinality(Owned(w))
        nz == Cardinality(Orphans(w))
    IN [w EXCEPT
          !.data = [c \in Cont |-> IF w.data[c] = NULL THEN NULL ELSE Rank(w, w.data[c])],
          !.heap = [x \in BufId |->
                      IF x <= no THEN w.heap[CHOOSE b \in Owned(w) : Rank(w, b) = x]
                      ELSE IF x <= no + nz THEN [alloc |-> TRUE, mem |-> NoBuf.mem]
                      ELSE NoBuf]]

LiveRange(w, b) ==
    IF Owners(w, b) = {} THEN 0
    ELSE CHOOSE n \in {w.size[c] : c \in Owners(w, b)} :
             \A c \in Owners(w, b) : w.size[c] <= n

Abstract(w) ==
    [b \in BufId |->
        LET n == LiveRange(w, b)
            buf == w.heap[b]
            left == \E j \in DOMAIN buf.mem : j >= n /\ Constructed(buf.mem[j])
        IN [alloc |-> buf.alloc,
            mem |-> [i \in DOMAIN buf.mem |->
                       IF i < n THEN buf.mem[i]
                       ELSE IF i = n /\ left THEN Junk ELSE Raw]]]

Unresolved(w, h) ==
    {p \in BufId \X (0..MaxSize) :
        /\ p[2] \in DOMAIN h[p[1]].mem
        /\ p[2] < LiveRange(w, p[1])
        /\ h[p[1]].mem[p[2]].st \in {"raw", "junk"}}

RECURSIVE Resolve(_, _)
Resolve(h, U) ==
    IF U = {} THEN {h}
    ELSE LET p == CHOOSE q \in U : TRUE
             b == p[1]
             i == p[2]
             m(e) == [j \in DOMAIN h[b].mem |->
                        IF j # i THEN h[b].mem[j]
                        ELSE IF h[b].mem[j].st = "raw" THEN DeadSlot(e) ELSE LiveSlot(e)]
         IN UNION {Resolve([x \in BufId |->
                               IF x = b THEN [alloc |-> h[b].alloc, mem |-> m(e)] ELSE h[x]],
                           U \ {p}) : e \in Entry}

\* the heaps a call may leave in a renamed world
Settled(r, h) == Resolve(h, Unresolved(r, h))
Settle(r) == Settled(r, Abstract(r))

\* ----------------------------------------------------------------- actions
\* a call: its name, object (c, with its size before the call in was),
\* arguments and result
NoCall == [op |-> "none", c |-> 0, was |-> 0, o |-> 0, pos |-> 0, to |-> 0, n |-> 0,
           ord |-> 0, key |-> "", val |-> Indet, il |-> <<>>,
           ok |-> TRUE, it |-> 0, out |-> <<>>, fault |-> FALSE, past |-> FALSE]

Pos == 0..(MaxSize + 1)
One == {CHOOSE e \in Entry : TRUE}
ILsOne == UNION {[1..n -> One] : n \in 0..MaxIL}
Caps == 0..MaxCap
ILs == UNION {[1..n -> Entry] : n \in 0..MaxIL}
Literals == UNION {[1..n -> Entry] : n \in 0..MaxLiteral}
\* the container under study, and the caller's other container
Self == CHOOSE c \in Cont : \A o \in Cont : c <= o
Temp == CHOOSE c \in Cont : c # Self

\* one default-constructed container
InitSelf(t) ==
    /\ exists = [c \in Cont |-> c = Self]
    /\ size_ = [c \in Cont |-> 0]
    /\ capacity_ = [c \in Cont |-> 0]
    /\ data_ = [c \in Cont |-> NULL]
    /\ heap = [b \in BufId |-> NoBuf]
    /\ void_mapped_type_ = [c \in Cont |-> DefaultInit]
    /\ last = NoCall
    /\ track = t

\* the call that took World to w returns; a call that faults ends the process
Returned(w, call) ==
    IF w.fault
    THEN /\ last' = [call EXCEPT !.fault = TRUE]
         /\ UNCHANGED <<size_, capacity_, data_, heap>>
    ELSE \E r \in {Renamed(w)} :
            /\ \E h \in Settle(r) : heap' = h
            /\ size_' = r.size
            /\ capacity_' = r.capacity
            /\ data_' = r.data
            /\ last' = IF call.op \in track
                       THEN [call EXCEPT !.ok = r.ok, !.it = r.it, !.out = r.out,
                                         !.past = r.past /\ "past" \in track]
                       ELSE IF "call" \in track
                            THEN [NoCall EXCEPT !.op = "call", !.c = call.c]
                            ELSE NoCall

Return(w, call) ==
    /\ last = NoCall
    /\ UNCHANGED track
    /\ \E v \in {w} :
          /\ ~v.bound
          /\ \A c \in Cont : v.size[c] <= SizeLimit
          /\ Returned(v, call)

Method(c, w, call) ==
    /\ exists[c]
    /\ Return(w, [call EXCEPT !.was = size_[c]])
    /\ UNCHANGED <<exists, void_mapped_type_>>

Insert(c, val, pos) ==
    Method(c, insert(World, c, val, pos),
           [NoCall EXCEPT !.op = "insert", !.c = c, !.val = val, !.pos = pos])

PushBack(c, val) ==
    Method(c, insert(World, c, val, size_[c]),
           [NoCall EXCEPT !.op = "push_back", !.c = c, !.val = val, !.pos = size_[c]])

PushFront(c, val) ==
    Method(c, insert(World, c, val, 0),
           [NoCall EXCEPT !.op = "push_front", !.c = c, !.val = val])

InsertIl(c, il, pos) ==
    Method(c, insert_il(World, c, il, pos),
           [NoCall EXCEPT !.op = "insert_il", !.c = c, !.il = il, !.pos = pos])

InsertMap(c, map, pos) ==
    /\ map # c
    /\ exists[map]
    /\ Method(c, insert_map(World, c, map, pos),
              [NoCall EXCEPT !.op = "insert_map", !.c = c, !.o = map, !.pos = pos])

Erase(c, pos) ==
    Method(c, erase(World, c, pos), [NoCall EXCEPT !.op = "erase", !.c = c, !.pos = pos])

EraseAll(c, key) ==
    Method(c, erase_all(World, c, key),
           [NoCall EXCEPT !.op = "erase_all", !.c = c, !.key = key])

Move(c, from, to) ==
    Method(c, move(World, c, from, to),
           [NoCall EXCEPT !.op = "move", !.c = c, !.pos = from, !.to = to])

Swap(c, from, to) ==
    Method(c, swap(World, c, from, to),
           [NoCall EXCEPT !.op = "swap", !.c = c, !.pos = from, !.to = to])

SwapMaps(a, b) ==
    /\ exists[b]
    /\ Method(a, swap_maps(World, a, b), [NoCall EXCEPT !.op = "swap_maps", !.c = a, !.o = b])

Clear(c) == Method(c, clear(World, c), [NoCall EXCEPT !.op = "clear", !.c = c])

Reserve(c, min_capacity) ==
    Method(c, reserve(World, c, min_capacity),
           [NoCall EXCEPT !.op = "reserve", !.c = c, !.n = min_capacity])

Resize(c, new_capacity) ==
    Method(c, resize(World, c, new_capacity),
           [NoCall EXCEPT !.op = "resize", !.c = c, !.n = new_capacity])

\* shrink() { return resize(size_); }
Shrink(c) ==
    Method(c, resize(World, c, size_[c]), [NoCall EXCEPT !.op = "shrink", !.c = c])

CopyAssign(c, other) ==
    /\ other # c
    /\ exists[other]
    /\ Method(c, copy_assign(World, c, other),
              [NoCall EXCEPT !.op = "copy_assign", !.c = c, !.o = other])

MoveAssign(c, other) ==
    /\ other # c
    /\ exists[other]
    /\ Method(c, move_assign(World, c, other),
              [NoCall EXCEPT !.op = "move_assign", !.c = c, !.o = other])

Get(c, key, ordinal, number) ==
    Method(c, [World EXCEPT !.out = get(World, c, key, ordinal, number)],
           [NoCall EXCEPT !.op = "get", !.c = c, !.key = key, !.ord = ordinal, !.n = number])

GetAll(c, key) ==
    Method(c, [World EXCEPT !.out = get_all(World, c, key)],
           [NoCall EXCEPT !.op = "get_all", !.c = c, !.key = key])

GetPos(c, pos) ==
    Method(c, [World EXCEPT !.it = get_pos(World, c, pos)],
           [NoCall EXCEPT !.op = "get_pos", !.c = c, !.pos = pos])

Construct(c, w, call) ==
    /\ ~exists[c]
    /\ Return(w, call)
    /\ exists' = [exists EXCEPT ![c] = TRUE]
    /\ void_mapped_type_' = [void_mapped_type_ EXCEPT ![c] = DefaultInit]

Ctor(c) == Construct(c, ctor(World, c), [NoCall EXCEPT !.op = "ctor", !.c = c])

CtorIl(c, il) ==
    Construct(c, ctor_il(World, c, il), [NoCall EXCEPT !.op = "ctor_il", !.c = c, !.il = il])

CtorCopy(c, other) ==
    /\ exists[other]
    /\ Construct(c, ctor_copy(World, c, other),
                 [NoCall EXCEPT !.op = "ctor_copy", !.c = c, !.o = other])

CtorMove(c, other) ==
    /\ exists[other]
    /\ Construct(c, ctor_move(World, c, other),
                 [NoCall EXCEPT !.op = "ctor_move", !.c = c, !.o = other])

Dtor(c) ==
    /\ exists[c]
    /\ Return(dtor(World, c), [NoCall EXCEPT !.op = "dtor", !.c = c])
    /\ exists' = [exists EXCEPT ![c] = FALSE]
    /\ UNCHANGED void_mapped_type_

\* Callers that use a temporary:
\*   { vectormap tmp{il}; c.insert(tmp, pos); }
InsertTemp(c, il, pos) ==
    LET w1 == ctor_il(World, Temp, il)
        w2 == insert_map(w1, c, Temp, pos)
        w3 == dtor(w2, Temp)
    IN /\ ~exists[Temp]
       /\ ~w1.bound
       /\ Method(c, [w3 EXCEPT !.it = w2.it],
                 [NoCall EXCEPT !.op = "insert_map", !.c = c, !.o = Temp, !.il = il,
                                !.pos = pos])

\* A caller that undoes its insert:  c.insert(val, pos); c.erase(pos);
InsertErase(c, val, pos) ==
    Method(c, erase(insert(World, c, val, pos), c, pos),
           [NoCall EXCEPT !.op = "insert_erase", !.c = c, !.val = val, !.pos = pos])

\*   { vectormap tmp{}; tmp = std::move(c); }, tmp{} the empty initializer list
MoveAway(c) ==
    LET w1 == ctor_il(World, Temp, <<>>)
        w2 == move_assign(w1, Temp, c)
        w3 == dtor(w2, Temp)
    IN /\ ~exists[Temp]
       /\ ~w1.bound
       /\ Method(c, w3, [NoCall EXCEPT !.op = "move_away", !.c = c])

\* the caller goes on after an observed call
Forget ==
    /\ last # NoCall
    /\ ~last.fault
    /\ last' = NoCall
    /\ UNCHANGED <<exists, size_, capacity_, data_, heap, void_mapped_type_, track>>

\* the value read through get_value(pos): an entry's, or the stand-in's; a
\* stand-in never assigned reads as any value
get_value(c, pos) ==
    IF pos < size_[c] THEN {heap[data_[c]].mem[pos].e.second}
    ELSE IF void_mapped_type_[c].set THEN {void_mapped_type_[c].v}
    ELSE {DefaultValue} \cup Vals

\* get_key(pos)
get_key(c, pos) ==
    IF pos < size_[c] THEN heap[data_[c]].mem[pos].e.first ELSE void_key_type_

\* a call that reads the container and returns
Read(c, call) ==
    /\ exists[c]
    /\ last = NoCall
    /\ last' = IF call.op \in track THEN [call EXCEPT !.was = size_[c]] ELSE NoCall
    /\ UNCHANGED <<exists, size_, capacity_, data_, heap, void_mapped_type_, track>>

\* v = c.get_value(pos)
GetValue(c, pos) ==
    \E v \in get_value(c, pos) :
        Read(c, [NoCall EXCEPT !.op = "get_value", !.c = c, !.pos = pos, !.out = <<v>>])

\* k = c.get_key(pos)
GetKey(c, pos) ==
    Read(c, [NoCall EXCEPT !.op = "get_key", !.c = c, !.pos = pos,
                           !.key = get_key(c, pos)])

\* c.get_value(pos) = v: mapped_type& is a reference the caller may assign
\* through
SetValue(c, pos, v) ==
    /\ exists[c]
    /\ last = NoCall
    /\ IF pos < size_[c]
       THEN /\ heap' = [heap EXCEPT ![data_[c]].mem[pos].e.second = v]
            /\ UNCHANGED void_mapped_type_
       ELSE /\ void_mapped_type_' = [void_mapped_type_ EXCEPT ![c] = [set |-> TRUE, v |-> v]]
            /\ UNCHANGED heap
    /\ UNCHANGED <<exists, size_, capacity_, data_, last, track>>

\* no other container than c exists
Alone(c) == \A o \in Cont \ {c} : ~exists[o]

\* Every mutating operation.  The second container is a temporary of the
\* caller: it lives for calls that take two containers.
Next ==
    \/ Forget
    \/ Alone(Self) /\ \E val \in Entry, pos \in Pos : Insert(Self, val, pos)
    \/ Alone(Self) /\ \E val \in Entry : PushBack(Self, val)
    \/ Alone(Self) /\ \E val \in Entry : PushFront(Self, val)
    \/ Alone(Self) /\ \E il \in ILs, pos \in Pos : InsertIl(Self, il, pos)
    \/ Alone(Self) /\ \E pos \in Pos : Erase(Self, pos)
    \/ Alone(Self) /\ \E key \in Keys : EraseAll(Self, key)
    \/ Alone(Self) /\ \E from \in Pos, to \in Pos : Move(Self, from, to)
    \/ Alone(Self) /\ \E from \in Pos, to \in Pos : Swap(Self, from, to)
    \/ Alone(Self) /\ Clear(Self)
    \/ Alone(Self) /\ \E m \in Caps : Reserve(Self, m)
    \/ Alone(Self) /\ \E m \in Caps : Resize(Self, m)
    \/ Alone(Self) /\ Shrink(Self)
    \/ Alone(Self) /\ Dtor(Self)
    \/ Ctor(Self)
    \/ \E il \in ILsOne : CtorIl(Self, il)
    \/ Ctor(Temp)
    \/ \E il \in ILsOne : CtorIl(Temp, il)
    \/ CtorCopy(Temp, Self)
    \/ CtorMove(Temp, Self)
    \/ \E pos \in Pos : InsertMap(Self, Temp, pos)
    \/ \E a \in Cont, b \in Cont : SwapMaps(a, b)
    \/ \E c \in Cont, other \in Cont : CopyAssign(c, other)
    \/ \E c \in Cont, other \in Cont : MoveAssign(c, other)
    \/ Dtor(Temp)

Spec == InitSelf({"shrink", "copy_assign", "move_assign", "ctor_move"}) /\ [][Next]_vars

\* every operation of one container, and the callers above
NextSelf ==
    \/ Forget
    \/ \E val \in Entry, pos \in Pos : Insert(Self, val, pos)
    \/ \E val \in Entry : PushBack(Self, val)
    \/ \E val \in Entry : PushFront(Self, val)
    \/ \E il \in ILs, pos \in Pos : InsertIl(Self, il, pos)
    \/ \E il \in ILs, pos \in Pos : InsertTemp(Self, il, pos)
    \/ \E val \in Entry, pos \in Pos : InsertErase(Self, val, pos)
    \/ \E pos \in Pos : Erase(Self, pos)
    \/ \E key \in Keys : EraseAll(Self, key)
    \/ \E from \in Pos, to \in Pos : Move(Self, from, to)
    \/ \E from \in Pos, to \in Pos : Swap(Self, from, to)
    \/ Clear(Self)
    \/ \E m \in Caps : Reserve(Self, m)
    \/ \E m \in Caps : Resize(Self, m)
    \/ Shrink(Self)
    \/ MoveAway(Self)
    \/ \E key \in Keys, ordinal \in 1..MaxOrd, number \in 0..MaxOrd :
          Get(Self, key, ordinal, number)
    \/ \E key \in Keys : GetAll(Self, key)
    \/ \E pos \in Pos : GetPos(Self, pos)

\* one container, observed at its insert calls
SpecInsert == InitSelf({"insert", "insert_il", "insert_map"}) /\ [][NextSelf]_vars
\* ... at its erase and move calls
SpecErase == InitSelf({"erase", "erase_all", "insert_erase", "move"}) /\ [][NextSelf]_vars
\* ... at its lookups
SpecGet == InitSelf({"get", "get_all", "get_pos"}) /\ [][NextSelf]_vars

\* ... at its capacity calls
SpecMemory == InitSelf({"reserve", "resize", "shrink"}) /\ [][NextSelf]_vars

\* a container and its copy, each mutated while the other lives
NextCopy ==
    \/ Forget
    \/ \E c \in Cont, val \in One, pos \in Pos : Insert(c, val, pos)
    \/ \E c \in Cont, pos \in Pos : Erase(c, pos)
    \/ \E c \in Cont, key \in Keys : EraseAll(c, key)
    \/ \E c \in Cont, from \in Pos, to \in Pos : Move(c, from, to)
    \/ \E c \in Cont, from \in Pos, to \in Pos : Swap(c, from, to)
    \/ \E c \in Cont : Clear(c)
    \/ \E c \in Cont, m \in Caps : Reserve(c, m)
    \/ \E c \in Cont, m \in Caps : Resize(c, m)
    \/ CtorCopy(Temp, Self)
    \/ Dtor(Temp)

SpecCopy == InitSelf({"ctor_copy", "call"}) /\ [][NextCopy]_vars

\* a container constructed from a literal sequence, again and again
NextLiteral ==
    \/ Forget
    \/ Dtor(Self)
    \/ \E il \in Literals : CtorIl(Self, il)

SpecLiteral == InitSelf({"ctor_il", "literal"}) /\ [][NextLiteral]_vars

\* a container and its accessors by position
NextSentinel ==
    \/ Forget
    \/ \E val \in One, pos \in Pos : Insert(Self, val, pos)
    \/ \E pos \in Pos : Erase(Self, pos)
    \/ Clear(Self)
    \/ \E pos \in Pos : GetPos(Self, pos)
    \/ \E pos \in Pos : GetKey(Self, pos)
    \/ \E pos \in Pos : GetValue(Self, pos)
    \/ \E pos \in Pos, v \in Vals : SetValue(Self, pos, v)

SpecSentinel == InitSelf({"get_pos", "get_key", "get_value"}) /\ [][NextSentinel]_vars

\* a container whose entries are moved about
NextMove ==
    \/ Forget
    \/ \E val \in One, pos \in Pos : Insert(Self, val, pos)
    \/ \E pos \in Pos : Erase(Self, pos)
    \/ \E from \in Pos, to \in Pos : Move(Self, from, to)
    \/ \E m \in Caps : Reserve(Self, m)
    \/ \E m \in Caps : Resize(Self, m)

SpecMove == InitSelf({"move", "past"}) /\ [][NextMove]_vars

\* a new container that is only appended to
NextPush ==
    \/ Forget
    \/ \E val \in [first : Keys, second : Vals] : PushBack(Self, val)

SpecPush == InitSelf({"push_back"}) /\ [][NextPush]_vars

\* ------------------------------------------------------------------ claims
\* the slot at position i of container c, before and after a step
Slot(c, i) == heap[data_[c]].mem[i]
After(c, i) == heap'[data_'[c]].mem[i]
Range(c) == 0..(size_[c] - 1)
\* the entries of c in order, before and after a step
Slots(c) == [i \in 1..size_[c] |-> Slot(c, i - 1)]
SlotsAfter(c) == [i \in 1..size_'[c] |-> After(c, i - 1)]
\* the sequence s without its element at position i (counted from 0)
Without(s, i) == [j \in 1..(Len(s) - 1) |-> IF j <= i THEN s[j] ELSE s[j + 1]]
\* the slot holds the pair e, as an object
Holds(s, e) == s = LiveSlot(e)
\* t is the entry s, relocated: what it reads as is unchanged, and it is an
\* object if s was
Relocated(s, t) == t.e = s.e /\ (s.st = "live" => t.st = "live")
\* every entry of the sequence old is relocated to the same place of new
SameEntries(old, new) ==
    /\ Len(new) = Len(old)
    /\ \A i \in 1..Len(old) : Relocated(old[i], new[i])
\* the container, its buffer and the heap are as before the step
Untouched == UNCHANGED <<exists, size_, capacity_, data_, heap>>

\* C1: in every state reached by public operations (construction, inserts,
\* erases, move, swap, reserve, resize, shrink, clear, copy and move
\* assignment), 0 <= size <= capacity for every container.
SizeWithinCapacity ==
    \A c \in Cont : 0 <= size_[c] /\ size_[c] <= capacity_[c]

\* shrink has left a container of three entries with no spare capacity
ShrunkToSize ==
    /\ last.op = "shrink"
    /\ size_[Self] = 3
    /\ capacity_[Self] = 3

InsertSequenceShiftsUp ==
    [][(/\ last'.op \in {"insert_il", "insert_map"}
        /\ last'.pos <= size_[last'.c]
        /\ Len(last'.il) >= 1) =>
          LET c == last'.c
              pos == last'.pos
              L == Len(last'.il)
          IN /\ ~last'.fault
             /\ size_'[c] = size_[c] + L
             /\ \A i \in Range(c) :
                   IF i < pos
                   THEN After(c, i).e = Slot(c, i).e /\ After(c, i).st = "live"
                   ELSE Relocated(Slot(c, i), After(c, i + L))
             /\ \A j \in 1..L : Holds(After(c, pos + j - 1), last'.il[j])]_vars

\* C4: on a container that started empty and has only been appended to,
\* push_back adds one to the size, puts the pushed pair at the old size and
\* leaves the pairs pushed before it where they are, whatever their keys.
PushBackAppends ==
    [][last'.op = "push_back" =>
          LET c == last'.c
          IN /\ ~last'.fault
             /\ size_'[c] = size_[c] + 1
             /\ Holds(After(c, size_[c]), last'.val)
             /\ \A i \in Range(c) :
                   After(c, i) = Slot(c, i) /\ Slot(c, i).st = "live"]_vars

\* three pushes, the first and the third with the same key: both are kept,
\* in the order of the calls
PushBackAppended ==
    /\ last.op = "push_back"
    /\ size_[Self] = 3
    /\ Slots(Self) = <<LiveSlot([first |-> "a", second |-> 1]),
                       LiveSlot([first |-> "b", second |-> 2]),
                       LiveSlot([first |-> "a", second |-> 2])>>

\* C5: every insert overload called with pos > size returns the end marker
\* and leaves the size, the capacity and every entry as they were.
InsertBeyondEndRejected ==
    [][(/\ last'.op \in {"insert", "insert_il", "insert_map"}
        /\ last'.pos > size_[last'.c]) =>
          /\ ~last'.fault
          /\ last'.it = size_[last'.c]
          /\ Untouched]_vars

\* a sequence of two entries was refused by a container holding two
InsertBeyondEndSeen ==
    /\ last.op \in {"insert_il", "insert_map"}
    /\ Len(last.il) = 2
    /\ size_[Self] = 2
    /\ last.pos > size_[Self]
    /\ last.it = size_[Self]

\* C6: erase(pos) with pos >= size changes nothing; with pos < size it takes
\* one off the size, keeps the entries before pos in place, moves each entry
\* at i > pos to i - 1 (so that the entry of pos is the one removed) and
\* leaves the capacity as it was.
EraseShiftsDown ==
    [][last'.op = "erase" =>
          LET c == last'.c
              pos == last'.pos
          IN /\ ~last'.fault
             /\ IF pos >= size_[c] THEN Untouched
                ELSE /\ size_'[c] = size_[c] - 1
                     /\ capacity_'[c] = capacity_[c]
                     /\ \A i \in Range(c) :
                           /\ i < pos => After(c, i) = Slot(c, i)
                           /\ i > pos => Relocated(Slot(c, i), After(c, i - 1))]_vars

\* the middle one of three entries was erased
EraseShiftedDown ==
    /\ last.op = "erase"
    /\ last.was = 3
    /\ last.pos = 1
    /\ size_[Self] = 2

EraseAllRemovesKey ==
    [][last'.op = "erase_all" =>
          LET c == last'.c
              Other(s) == s.e.first # last'.key
          IN /\ ~last'.fault
             /\ SameEntries(SelectSeq(Slots(c), Other), SlotsAfter(c))
             /\ \A i \in 1..size_'[c] : Other(SlotsAfter(c)[i])]_vars

\* erase_all("a") on three entries, the first and the last with key "a", left
\* the one with key "b"
EraseAllRemoved ==
    /\ last.op = "erase_all"
    /\ last.key = "a"
    /\ last.was = 3
    /\ Slots(Self) = <<LiveSlot([first |-> "b", second |-> 1])>>

\* C9: move(from, to) with from < size and to < size keeps the size, puts the
\* entry of position from at position to and keeps the other entries in their
\* order; with from >= size or to >= size it changes nothing.
MoveRelocates ==
    [][last'.op = "move" =>
          LET c == last'.c
              from == last'.pos
              to == last'.to
          IN /\ ~last'.fault
             /\ IF (from < size_[c]) /\ (to < size_[c])
                THEN /\ size_'[c] = size_[c]
                     /\ Relocated(Slot(c, from), After(c, to))
                     /\ SameEntries(Without(Slots(c), from),
                                    Without(SlotsAfter(c), to))
                ELSE Untouched]_vars

\* the positions of the entries of c with the key, ascending
RECURSIVE Matches(_, _, _)
Matches(c, key, i) ==
    IF i >= size_[c] THEN <<>>
    ELSE (IF Slot(c, i).e.first = key THEN <<i>> ELSE <<>>) \o Matches(c, key, i + 1)

\* C10: get(key, ordinal, number), ordinal >= 1 and number >= 0, returns in
\* ascending order the positions of exactly the matches of rank r with
\* ordinal <= r < ordinal + number: at most number of them.
GetSelectsRanks ==
    last.op = "get" =>
        LET m == Matches(last.c, last.key, 0)
            Ranks == {r \in 1..Len(m) : last.ord <= r /\ r < last.ord + last.n}
        IN /\ Len(last.out) = Cardinality(Ranks)
           /\ \A j \in 1..Len(last.out) : last.out[j] = m[last.ord + j - 1]

\* C11: in every reachable state and for every key, get(key, 1, size())
\* returns as many results as get_all(key), and get_all(key) returns the
\* positions holding the key, each once, ascending.
GetAllIsFullScan ==
    /\ last.op = "get_all" =>
          /\ last.out = Matches(last.c, last.key, 0)
          /\ Len(get(World, last.c, last.key, 1, size_[last.c])) = Len(last.out)
    /\ (last.op = "get" /\ last.ord = 1 /\ last.n = size_[last.c]) =>
          Len(last.out) = Len(get_all(World, last.c, last.key))

\* get(key, 1, size()) on three entries returned the first and the third
GetFullScanSeen ==
    /\ last.op = "get"
    /\ last.ord = 1
    /\ last.n = 3
    /\ size_[Self] = 3
    /\ last.out = <<0, 2>>

\* C12: reserve(m) never decreases the capacity.
ReserveNeverShrinks ==
    [][last'.op = "reserve" => capacity_'[last'.c] >= capacity_[last'.c]]_vars

\* C13: reserve(m) with m < size returns false and changes nothing; with
\* m >= size it returns true, keeps the size and the entries in their order,
\* and leaves a capacity >= m that is a multiple of the chunk size.
ReserveGrowsInChunks ==
    [][last'.op = "reserve" =>
          LET c == last'.c
              m == last'.n
          IN /\ ~last'.fault
             /\ IF m < size_[c] THEN ~last'.ok /\ Untouched
                ELSE /\ last'.ok
                     /\ SameEntries(Slots(c), SlotsAfter(c))
                     /\ capacity_'[c] >= m
                     /\ capacity_'[c] % Delta = 0]_vars

\* reserve(2) has moved two live entries into a buffer of four slots
ReserveGrown ==
    /\ last.op = "reserve"
    /\ last.n = 2
    /\ last.ok
    /\ size_[Self] = 2
    /\ capacity_[Self] = 4
    /\ \A i \in Range(Self) : Slot(Self, i).st = "live"

\* C14: resize(n) with n < size returns false and changes nothing; with
\* n >= size it returns true, makes the capacity exactly n and keeps the
\* size and the entries in their order; so shrink() succeeds and leaves
\* capacity = size.
ResizeSetsCapacity ==
    [][last'.op \in {"resize", "shrink"} =>
          LET c == last'.c
              n == IF last'.op = "shrink" THEN size_[c] ELSE last'.n
          IN /\ ~last'.fault
             /\ IF n < size_[c] THEN ~last'.ok /\ Untouched
                ELSE /\ last'.ok
                     /\ SameEntries(Slots(c), SlotsAfter(c))
                     /\ capacity_'[c] = n]_vars

\* shrink() has left two live entries in exactly two slots
ShrinkDone ==
    /\ last.op = "shrink"
    /\ last.ok
    /\ size_[Self] = 2
    /\ capacity_[Self] = 2
    /\ \A i \in Range(Self) : Slot(Self, i).st = "live"

\* container o is as it was before the step
Kept(o) ==
    /\ size_'[o] = size_[o]
    /\ capacity_'[o] = capacity_[o]
    /\ SlotsAfter(o) = Slots(o)
\* new holds live copies of the entries of old, in their order
Copies(old, new) ==
    /\ Len(new) = Len(old)
    /\ \A i \in 1..Len(old) : new[i].e = old[i].e /\ new[i].st = "live"

\* C15: after a = b, a and b distinct, a has the size of b and copies of
\* b's entries in their order, whatever a was before, and b is unchanged.
CopyAssignCopies ==
    [][last'.op = "copy_assign" =>
          /\ ~last'.fault
          /\ size_'[last'.c] = size_[last'.o]
          /\ Copies(Slots(last'.o), SlotsAfter(last'.c))
          /\ Kept(last'.o)]_vars

is_empty(w, c) == w.data[c] = NULL \/ w.size[c] = 0

\* container o has given its buffer away: size 0, capacity 0, no buffer
Emptied(o) ==
    /\ size_'[o] = 0
    /\ capacity_'[o] = 0
    /\ data_'[o] = NULL
    /\ is_empty([World EXCEPT !.data = data_', !.size = size_'], o)

\* container c has the size, the capacity and the slots o had
TookOver(c, o) ==
    /\ size_'[c] = size_[o]
    /\ capacity_'[c] = capacity_[o]
    /\ SlotsAfter(c) = Slots(o)

\* C17: after d is move-constructed from s, s has size 0, capacity 0 and no
\* buffer, and d has the entries s had, in order, with s's size and capacity.
MoveConstructTransfers ==
    [][last'.op = "ctor_move" =>
          /\ ~last'.fault
          /\ Emptied(last'.o)
          /\ TookOver(last'.c, last'.o)]_vars

\* a container of two entries has been moved into a new one
MoveConstructed ==
    /\ last.op = "ctor_move"
    /\ last.c = Temp
    /\ size_[Temp] = 2
    /\ capacity_[Temp] = 2
    /\ size_[Self] = 0
    /\ \A i \in Range(Temp) : Slot(Temp, i).st = "live"

\* C18: after a = std::move(b) with a and b distinct, whatever a held, b has
\* size 0, capacity 0 and no buffer, and a has the entries b had, in order,
\* with b's size and capacity.
MoveAssignTransfers ==
    [][last'.op = "move_assign" =>
          /\ ~last'.fault
          /\ Emptied(last'.o)
          /\ TookOver(last'.c, last'.o)]_vars

\* the smallest multiple of the chunk size that is >= n
ChunksFor(n) == ((n + Delta - 1) \div Delta) * Delta

\* C19: a container constructed from a literal sequence of n >= 1 entries has
\* size n, holds the i-th entry of the sequence at position i, and has the
\* smallest multiple of the chunk size that is >= n as its capacity.
LiteralConstructs ==
    (last.op = "ctor_il" /\ Len(last.il) >= 1) =>
        /\ ~last.fault
        /\ size_[last.c] = Len(last.il)
        /\ \A i \in Range(last.c) : Slot(last.c, i) = LiveSlot(last.il[i + 1])
        /\ capacity_[last.c] = ChunksFor(Len(last.il))

\* C20: a call of get(pos), get_key(pos) or get_value(pos) with pos >= size
\* changes neither the size nor the capacity nor an entry; get(pos) returns
\* the end marker, get_key(pos) a key equal to a default-constructed key and
\* get_value(pos) a value equal to a default-constructed value, whatever the
\* callers have assigned through get_value before.
OutOfRangeIsSentinel ==
    [][(last'.op \in {"get_pos", "get_key", "get_value"} /\ last'.pos >= size_[last'.c]) =>
          /\ ~last'.fault
          /\ Untouched
          /\ last'.op = "get_pos" => last'.it = end(World, last'.c)
          /\ last'.op = "get_key" => last'.key = DefaultKey
          /\ last'.op = "get_value" => last'.out = <<DefaultValue>>]_vars

\* The case of C21 (the growth asked for by gap_ fails) does not arise:
\* gap_ asks reserve for size_ + length, which is never below size_, and
\* reserve asks resize for more than that, so that each returns true; in every
\* insert that opens a gap, success is true.
GrowthInGapSucceeds ==
    (last.op \in {"insert", "insert_il", "insert_map"} /\ ~last.fault) => last.ok

\* C22: in every reachable state, slot i of a container's buffer holds a
\* constructed entry if and only if i < size; no slot in [size, capacity)
\* holds a constructed entry.
ConstructedIffBelowSize ==
    \A c \in Cont :
        (exists[c] /\ data_[c] # NULL) =>
            \A i \in DOMAIN heap[data_[c]].mem :
                Constructed(Slot(c, i)) <=> i < size_[c]

\* C23: in every reachable state every allocated buffer is the buffer of
\* exactly one container: none is shared and none is left without an owner
\* (a resize releases the buffer held before, a move assignment orphans none).
BufferOwnedByOne ==
    \A b \in BufId :
        heap[b].alloc => Cardinality({c \in Cont : exists[c] /\ data_[c] = b}) = 1

\* C24: inserting an empty initializer list or an empty container at a
\* pos <= size leaves size, capacity and every entry as they were.
EmptyInsertKeepsAll ==
    [][(/\ last'.op \in {"insert_il", "insert_map"}
        /\ last'.il = <<>>
        /\ last'.pos <= size_[last'.c]) =>
          /\ ~last'.fault
          /\ Kept(last'.c)]_vars

\* C25: move(from, to) with from < size and to < size constructs and
\* destroys only slots below capacity, whatever the capacity before the call
\* (a slot move reads is a slot it destroys).
MoveStaysInBuffer ==
    (last.op = "move" /\ last.pos < last.was /\ last.to < last.was) =>
        /\ ~last.fault
        /\ ~last.past

====
